---- MODULE Spec2Model ----
(***************************************************************************)
(* Smart whiteboard backend: the in-memory CanvasService (room registry,   *)
(* canvas store, analytics) of app/services/canvas_service.py and the      *)
(* Socket.IO hub of main.py.                                               *)
(*                                                                         *)
(* Spec    : the CanvasService operations on the three service maps.       *)
(* HubSpec : the Socket.IO event handlers and their room-scoped fanout.    *)
(* AppSpec : the hub beside the room registry (create_room, delete_room).  *)
(* AISpec  : AIService shape classification and the detect-shapes route.   *)
(* UploadSpec : the upload route and CanvasService.upload_image.           *)
(* ConcSpec : join_room and leave_room called by concurrent coroutines.     *)
(* FifoSpec : the hub's handlers as tasks of the event loop, with the      *)
(*            per-connection send queues.                                  *)
(***************************************************************************)
EXTENDS Integers, Sequences, FiniteSets, TLC

VARIABLES
    rooms,        \* CanvasService.rooms       : room_id -> room record
    canvas_data,  \* CanvasService.canvas_data : room_id -> DrawingData
    analytics,    \* CanvasService.analytics   : room_id -> CanvasAnalytics
    used,         \* identifiers uuid4 has already handed out
    lastOp,       \* the last service call: its name, room, outcome
    last_saved,   \* history: room_id -> <<doc>> of the latest successful save
    ever_saved,   \* history: identifiers for which a save has ever succeeded
    connected,    \* Socket.IO: the sids currently connected
    members,      \* Socket.IO: room name -> sids in the room (fanout group)
    lastEmit,     \* the last sio.emit: event, sender, room, recipients
    terminated,   \* history: the sids that have disconnected, each with the
                  \* rooms it was in when it did
    ai,           \* the last AIService call or detect-shapes request and its result
    uploads,      \* the files in settings.UPLOAD_DIR: name -> extension and content
    http,         \* the last upload request and its response
    ready,        \* the event loop's queue of tasks that are ready to run
    outbox,       \* per connection: the packets queued on its socket
    delivered,    \* history: per connection, the packets sent to the client
    received,     \* history: the number of client events received so far
    calls,        \* per caller: its join_room or leave_room call and how far it is
    done          \* history: per room, the joins and leaves that have returned

vars == <<rooms, canvas_data, analytics, used, lastOp, last_saved, ever_saved,
          connected, members, lastEmit, terminated, ai, uploads, http,
          ready, outbox, delivered, received, calls, done>>

serviceVars == <<rooms, canvas_data, analytics, used, lastOp, last_saved, ever_saved>>
hubVars == <<connected, members, lastEmit, terminated>>
aiVars == <<ai>>
uploadVars == <<uploads, http>>
fifoVars == <<ready, outbox, delivered, received>>
concVars == <<calls, done>>
nonServiceVars == <<hubVars, aiVars, uploadVars, fifoVars>>
\* a handler leaves these alone whether it runs at once or as a queued task
nonHubVars == <<serviceVars, aiVars, uploadVars, concVars>>
nonAiVars == <<serviceVars, hubVars, uploadVars, fifoVars, concVars>>
nonUploadVars == <<serviceVars, hubVars, aiVars, fifoVars, concVars>>

---------------------------------------------------------------------------
(* Bounds of the model *)

\* longest stroke list the callers draw freely from StrokeInputs
MaxStrokes == 2
\* join_room is not taken once a room counts this many users
MaxUsers == 1
\* most vertices of a simplified contour
MaxVertices == 10
\* widest and tallest bounding box of a contour
MaxSide == 6
\* most contours found in one image
MaxContours == 2
\* the upload route stores no further file once the directory holds this many
MaxUploads == 2
\* no further client event is received once this many have been
MaxEvents == 4

(* Input alphabets *)
RoomIds == {"id1", "id2"}
RoomNames == {"Team A", "Team B"}
UserIds == {"u1"}

---------------------------------------------------------------------------
(* app/core/config.py *)
DEFAULT_CANVAS_WIDTH == 1920
DEFAULT_CANVAS_HEIGHT == 1080
MAX_CANVAS_SIZE == 4096

(* app/models/drawing.py *)
None == "None"
ShapeType == {"rectangle", "circle", "triangle", "line", "arrow"}
ToolType == {"pen", "eraser", "shape", "text"}

DrawingPoint(x, y) == [x |-> x, y |-> y, pressure |-> 1]

DrawingStroke(points, color, tool, shape_type) ==
    [points |-> points, color |-> color, width |-> 2, tool |-> tool,
     shape_type |-> shape_type]

DrawingData(strokes, w, h) ==
    [strokes |-> strokes, canvas_width |-> w, canvas_height |-> h,
     background_color |-> "#ffffff", timestamp |-> None]

CanvasAnalytics(total_strokes, active_users, drawing_time, heatmap_data, shape_count, color_usage) ==
    [total_strokes |-> total_strokes, active_users |-> active_users,
     drawing_time |-> drawing_time, heatmap_data |-> heatmap_data,
     shape_count |-> shape_count, color_usage |-> color_usage]

(* The strokes and documents the callers send *)
StrokeInputs ==
    { DrawingStroke(<<DrawingPoint(0, 0)>>, "red", "pen", None),
      DrawingStroke(<<DrawingPoint(0, 0), DrawingPoint(1, 1)>>, "blue", "shape", "circle") }

StrokeLists == UNION { [1..n -> StrokeInputs] : n \in 0..MaxStrokes }

\* a document of three strokes: red, red, blue, the blue one a circle
ExampleStrokes ==
    << DrawingStroke(<<DrawingPoint(0, 0)>>, "red", "pen", None),
       DrawingStroke(<<DrawingPoint(0, 0)>>, "red", "pen", None),
       DrawingStroke(<<DrawingPoint(0, 0), DrawingPoint(1, 1)>>, "blue", "shape", "circle") >>

\* a document the models accept although its canvas is wider than
\* MAX_CANVAS_SIZE and 0 high and its stroke has no points
UnboundedDoc ==
    DrawingData(<<DrawingStroke(<< >>, "red", "pen", None)>>, MAX_CANVAS_SIZE + 1, 0)

Docs ==
    { DrawingData(s, DEFAULT_CANVAS_WIDTH, DEFAULT_CANVAS_HEIGHT) :
        s \in StrokeLists \cup {ExampleStrokes} }
    \cup {UnboundedDoc}

---------------------------------------------------------------------------
(* Python helpers *)
Max(a, b) == IF a >= b THEN a ELSE b

EmptyDict == [k \in {} |-> 0]
DictGet(d, k, default) == IF k \in DOMAIN d THEN d[k] ELSE default
DictSet(d, k, v) == [x \in (DOMAIN d) \cup {k} |-> IF x = k THEN v ELSE d[x]]
DictDel(d, k) == [x \in (DOMAIN d) \ {k} |-> d[x]]

Ok(v) == [ok |-> TRUE, value |-> v]
Raise(msg) == [ok |-> FALSE, error |-> msg]

\* an identifier source that may hand out an identifier again
uuid4_repeating == RoomIds

\* uuid.uuid4(): the identifiers a call may return, never one handed out before
uuid4 == RoomIds \ used

---------------------------------------------------------------------------
(* CanvasService, app/services/canvas_service.py *)

\* the record of the last call: op, room_id, the room name given (create_room
\* only), the exception it raised (None when it returned), the room's
\* active_users before the call (-1 when the room was absent), and whether
\* the call repeats the successful save that immediately preceded it (same
\* room, same document)
Call(op, room_id, room_name, raised, repeat) ==
    [op |-> op, room_id |-> room_id, room_name |-> room_name, raised |-> raised,
     users_before |-> IF room_id \in DOMAIN rooms THEN rooms[room_id].active_users ELSE -1,
     repeat |-> repeat]

\* tenths of a second added per stroke (0.1 s)
SecondsPerStrokeTenths == 1

\* the heatmap literal of both analytics constructors
HeatmapLiteral == [width |-> 1920, height |-> 1080, data |-> << >>]

\* for stroke in drawing_data.strokes: color_usage[color] = color_usage.get(color, 0) + 1
RECURSIVE ColorUsageLoop(_, _, _)
ColorUsageLoop(strokes, i, color_usage) ==
    IF i > Len(strokes) THEN color_usage
    ELSE LET color == strokes[i].color
         IN ColorUsageLoop(strokes, i + 1,
                           DictSet(color_usage, color, DictGet(color_usage, color, 0) + 1))

\* the shape loop without the test for a missing shape_type
RECURSIVE ShapeCountLoop_untested(_, _, _)
ShapeCountLoop_untested(strokes, i, shape_count) ==
    IF i > Len(strokes) THEN shape_count
    ELSE LET shape_name == strokes[i].shape_type
         IN ShapeCountLoop_untested(strokes, i + 1,
                                    DictSet(shape_count, shape_name,
                                            DictGet(shape_count, shape_name, 0) + 1))

\* for stroke in drawing_data.strokes: if stroke.shape_type: shape_count[name] = ... + 1
RECURSIVE ShapeCountLoop(_, _, _)
ShapeCountLoop(strokes, i, shape_count) ==
    IF i > Len(strokes) THEN shape_count
    ELSE IF strokes[i].shape_type # None
         THEN LET shape_name == strokes[i].shape_type
              IN ShapeCountLoop(strokes, i + 1,
                                DictSet(shape_count, shape_name,
                                        DictGet(shape_count, shape_name, 0) + 1))
         ELSE ShapeCountLoop(strokes, i + 1, shape_count)

\* the record _update_room_analytics inserts when the room has none
FreshAnalytics == CanvasAnalytics(0, 1, 0, HeatmapLiteral, EmptyDict, EmptyDict)

\* _update_room_analytics adding the new drawing time to the old one
update_room_analytics_accumulate(an, room_id, drawing_data) ==
    LET a0 == IF room_id \notin DOMAIN an THEN FreshAnalytics ELSE an[room_id]
        a1 == [a0 EXCEPT !.total_strokes = Len(drawing_data.strokes)]
        a2 == [a1 EXCEPT !.color_usage = ColorUsageLoop(drawing_data.strokes, 1, EmptyDict)]
        a3 == [a2 EXCEPT !.shape_count = ShapeCountLoop(drawing_data.strokes, 1, EmptyDict)]
        a4 == [a3 EXCEPT !.drawing_time = @ + Len(drawing_data.strokes) * SecondsPerStrokeTenths]
    IN DictSet(an, room_id, a4)

\* the analytics map after _update_room_analytics(room_id, drawing_data)
update_room_analytics(an, room_id, drawing_data) ==
    LET a0 == IF room_id \notin DOMAIN an THEN FreshAnalytics ELSE an[room_id]
        a1 == [a0 EXCEPT !.total_strokes = Len(drawing_data.strokes)]
        a2 == [a1 EXCEPT !.color_usage = ColorUsageLoop(drawing_data.strokes, 1, EmptyDict)]
        a3 == [a2 EXCEPT !.shape_count = ShapeCountLoop(drawing_data.strokes, 1, EmptyDict)]
        a4 == [a3 EXCEPT !.drawing_time = Len(drawing_data.strokes) * SecondsPerStrokeTenths]
    IN DictSet(an, room_id, a4)

\* the room record create_room stores (created_at, a wall-clock string that
\* no operation reads, is left out)
NewRoom(room_id, room_name) ==
    [id |-> room_id, name |-> room_name, active_users |-> 0,
     canvas_width |-> DEFAULT_CANVAS_WIDTH, canvas_height |-> DEFAULT_CANVAS_HEIGHT]

\* create_room without the empty canvas
create_room_no_canvas(room_name) ==
    \E room_id \in uuid4 :
        /\ rooms' = DictSet(rooms, room_id, NewRoom(room_id, room_name))
        /\ used' = used \cup {room_id}
        /\ lastOp' = Call("create_room", room_id, room_name, None, FALSE)
        /\ UNCHANGED <<canvas_data, analytics, last_saved, ever_saved>>
        /\ UNCHANGED nonServiceVars

create_room(room_name) ==
    \E room_id \in uuid4 :
        /\ rooms' = DictSet(rooms, room_id, NewRoom(room_id, room_name))
        /\ canvas_data' = DictSet(canvas_data, room_id,
                                  DrawingData(<< >>, DEFAULT_CANVAS_WIDTH, DEFAULT_CANVAS_HEIGHT))
        /\ used' = used \cup {room_id}
        /\ lastOp' = Call("create_room", room_id, room_name, None, FALSE)
        /\ UNCHANGED <<analytics, last_saved, ever_saved>>
        /\ UNCHANGED nonServiceVars

\* reads: the value returned or the exception raised in the current state
get_room_info(room_id) ==
    IF room_id \notin DOMAIN rooms THEN Raise("Room not found") ELSE Ok(rooms[room_id])

get_canvas(room_id) ==
    IF room_id \notin DOMAIN canvas_data THEN Raise("Canvas not found")
    ELSE Ok(canvas_data[room_id])

get_room_analytics(room_id) ==
    IF room_id \notin DOMAIN analytics
    THEN Ok(CanvasAnalytics(0, 0, 0, HeatmapLiteral, EmptyDict, EmptyDict))
    ELSE Ok(analytics[room_id])

\* save_canvas that stores the document before it looks the room up
save_canvas_store_first(room_id, drawing_data) ==
    /\ canvas_data' = DictSet(canvas_data, room_id, drawing_data)
    /\ IF room_id \notin DOMAIN rooms
       THEN /\ lastOp' = Call("save_canvas", room_id, None, "Room not found", FALSE)
            /\ UNCHANGED <<analytics, last_saved, ever_saved>>
       ELSE /\ analytics' = update_room_analytics(analytics, room_id, drawing_data)
            /\ last_saved' = [last_saved EXCEPT ![room_id] = <<drawing_data>>]
            /\ ever_saved' = ever_saved \cup {room_id}
            /\ lastOp' = Call("save_canvas", room_id, None, None, FALSE)
    /\ UNCHANGED <<rooms, used>>
    /\ UNCHANGED nonServiceVars

\* save_canvas that computes analytics only for a room that has none yet
save_canvas_stale_analytics(room_id, drawing_data) ==
    /\ IF room_id \notin DOMAIN rooms
       THEN /\ lastOp' = Call("save_canvas", room_id, None, "Room not found", FALSE)
            /\ UNCHANGED <<canvas_data, analytics, last_saved, ever_saved>>
       ELSE /\ canvas_data' = DictSet(canvas_data, room_id, drawing_data)
            /\ analytics' = IF room_id \in DOMAIN analytics THEN analytics
                            ELSE update_room_analytics(analytics, room_id, drawing_data)
            /\ last_saved' = [last_saved EXCEPT ![room_id] = <<drawing_data>>]
            /\ ever_saved' = ever_saved \cup {room_id}
            /\ lastOp' = Call("save_canvas", room_id, None, None, FALSE)
    /\ UNCHANGED <<rooms, used>>
    /\ UNCHANGED nonServiceVars

save_canvas(room_id, drawing_data) ==
    /\ IF room_id \notin DOMAIN rooms
       THEN /\ lastOp' = Call("save_canvas", room_id, None, "Room not found", FALSE)
            /\ UNCHANGED <<canvas_data, analytics, last_saved, ever_saved>>
       ELSE /\ canvas_data' = DictSet(canvas_data, room_id, drawing_data)
            /\ analytics' = update_room_analytics(analytics, room_id, drawing_data)
            /\ last_saved' = [last_saved EXCEPT ![room_id] = <<drawing_data>>]
            /\ ever_saved' = ever_saved \cup {room_id}
            /\ lastOp' = Call("save_canvas", room_id, None, None,
                              /\ lastOp.op = "save_canvas"
                              /\ lastOp.raised = None
                              /\ lastOp.room_id = room_id
                              /\ last_saved[room_id] = <<drawing_data>>)
    /\ UNCHANGED <<rooms, used>>
    /\ UNCHANGED nonServiceVars

\* join_room that inserts a room record for an unknown identifier
join_room_autocreate(room_id, user_id) ==
    /\ room_id \in DOMAIN rooms => rooms[room_id].active_users < MaxUsers
    /\ IF room_id \notin DOMAIN rooms
       THEN /\ rooms' = DictSet(rooms, room_id,
                                [NewRoom(room_id, "") EXCEPT !.active_users = 1])
            /\ lastOp' = Call("join_room", room_id, None, None, FALSE)
       ELSE /\ rooms' = [rooms EXCEPT ![room_id].active_users = @ + 1]
            /\ lastOp' = Call("join_room", room_id, None, None, FALSE)
    /\ UNCHANGED <<canvas_data, analytics, used, last_saved, ever_saved>>
    /\ UNCHANGED nonServiceVars

join_room(room_id, user_id) ==
    /\ room_id \in DOMAIN rooms => rooms[room_id].active_users < MaxUsers
    /\ IF room_id \notin DOMAIN rooms
       THEN /\ lastOp' = Call("join_room", room_id, None, "Room not found", FALSE)
            /\ UNCHANGED rooms
       ELSE /\ rooms' = [rooms EXCEPT ![room_id].active_users = @ + 1]
            /\ lastOp' = Call("join_room", room_id, None, None, FALSE)
    /\ UNCHANGED <<canvas_data, analytics, used, last_saved, ever_saved>>
    /\ UNCHANGED nonServiceVars

\* leave_room decrementing without the floor
leave_room_nofloor(room_id, user_id) ==
    /\ IF room_id \in DOMAIN rooms
       THEN rooms' = [rooms EXCEPT ![room_id].active_users = @ - 1]
       ELSE UNCHANGED rooms
    /\ lastOp' = Call("leave_room", room_id, None, None, FALSE)
    /\ UNCHANGED <<canvas_data, analytics, used, last_saved, ever_saved>>
    /\ UNCHANGED nonServiceVars

leave_room(room_id, user_id) ==
    /\ IF room_id \in DOMAIN rooms
       THEN rooms' = [rooms EXCEPT ![room_id].active_users = Max(0, @ - 1)]
       ELSE UNCHANGED rooms
    /\ lastOp' = Call("leave_room", room_id, None, None, FALSE)
    /\ UNCHANGED <<canvas_data, analytics, used, last_saved, ever_saved>>
    /\ UNCHANGED nonServiceVars

\* delete_room that leaves the room's canvas document behind
delete_room_keep_canvas(room_id) ==
    /\ rooms' = IF room_id \in DOMAIN rooms THEN DictDel(rooms, room_id) ELSE rooms
    /\ analytics' = IF room_id \in DOMAIN analytics
                    THEN DictDel(analytics, room_id) ELSE analytics
    /\ last_saved' = [last_saved EXCEPT ![room_id] = << >>]
    /\ lastOp' = Call("delete_room", room_id, None, None, FALSE)
    /\ UNCHANGED <<canvas_data, used, ever_saved>>
    /\ UNCHANGED nonServiceVars

\* delete_room that leaves the room's analytics behind
delete_room_no_cascade(room_id) ==
    /\ rooms' = IF room_id \in DOMAIN rooms THEN DictDel(rooms, room_id) ELSE rooms
    /\ canvas_data' = IF room_id \in DOMAIN canvas_data
                      THEN DictDel(canvas_data, room_id) ELSE canvas_data
    /\ last_saved' = [last_saved EXCEPT ![room_id] = << >>]
    /\ lastOp' = Call("delete_room", room_id, None, None, FALSE)
    /\ UNCHANGED <<analytics, used, ever_saved>>
    /\ UNCHANGED nonServiceVars

delete_room(room_id) ==
    /\ rooms' = IF room_id \in DOMAIN rooms THEN DictDel(rooms, room_id) ELSE rooms
    /\ canvas_data' = IF room_id \in DOMAIN canvas_data
                      THEN DictDel(canvas_data, room_id) ELSE canvas_data
    /\ analytics' = IF room_id \in DOMAIN analytics
                    THEN DictDel(analytics, room_id) ELSE analytics
    /\ last_saved' = [last_saved EXCEPT ![room_id] = << >>]
    /\ lastOp' = Call("delete_room", room_id, None, None, FALSE)
    /\ UNCHANGED <<used, ever_saved>>
    /\ UNCHANGED nonServiceVars

---------------------------------------------------------------------------
(* Socket.IO hub, main.py *)
Sids == {"s1", "s2", "s3"}
HubRooms == RoomIds
Payloads == {"p1", "p2"}

\* the events a client sends: data carries 'room' (None when the key is
\* missing or empty) and the rest of the payload
ClientData == [room : HubRooms \cup {None}, payload : Payloads]

NoEmit ==
    [event |-> None, data |-> [sid |-> None], room |-> None, sid |-> None, to |-> {},
     group |-> {}]

\* sio.emit(event, data, room=room, skip_sid=skip_sid) from the handler of
\* sid: the sids it is delivered to are the participants of the room (every
\* connected sid when no room is given) other than skip_sid.  group is the
\* room's membership when the handler started.
emit(mem, event, data, room, skip_sid, sid) ==
    [event |-> event, data |-> data, room |-> room, sid |-> sid,
     to |-> (IF room = None THEN connected \cup {sid} ELSE mem[room]) \ {skip_sid},
     group |-> IF room = None THEN {} ELSE members[room]]

enter_room(mem, sid, room) == [mem EXCEPT ![room] = @ \cup {sid}]
sio_leave_room(mem, sid, room) == [mem EXCEPT ![room] = @ \ {sid}]

TerminatedSids == { t.sid : t \in terminated }

\* connect without skip_sid
connect_echo(sid) ==
    /\ sid \notin connected \cup TerminatedSids
    /\ connected' = connected \cup {sid}
    /\ lastEmit' = emit(members, "user_connected", [sid |-> sid], None, None, sid)
    /\ UNCHANGED <<members, terminated>>
    /\ UNCHANGED nonHubVars

\* a sid is a fresh random token: one that has disconnected never comes back
connect(sid) ==
    /\ sid \notin connected \cup TerminatedSids
    /\ connected' = connected \cup {sid}
    /\ lastEmit' = emit(members, "user_connected", [sid |-> sid], None, sid, sid)
    /\ UNCHANGED <<members, terminated>>
    /\ UNCHANGED nonHubVars

\* disconnect with the sid left in its rooms
disconnect_keep_rooms(sid) ==
    /\ sid \in connected
    /\ lastEmit' = emit(members, "user_disconnected", [sid |-> sid], None, sid, sid)
    /\ connected' = connected \ {sid}
    /\ terminated' = terminated \cup
           {[sid |-> sid, rooms |-> { r \in HubRooms : sid \in members[r] }]}
    /\ UNCHANGED members
    /\ UNCHANGED nonHubVars

\* the handler, then the server drops the sid from every room it is in
disconnect(sid) ==
    /\ sid \in connected
    /\ lastEmit' = emit(members, "user_disconnected", [sid |-> sid], None, sid, sid)
    /\ connected' = connected \ {sid}
    /\ members' = [r \in HubRooms |-> members[r] \ {sid}]
    /\ terminated' = terminated \cup
           {[sid |-> sid, rooms |-> { r \in HubRooms : sid \in members[r] }]}
    /\ UNCHANGED nonHubVars

hub_join_room(sid, data) ==
    /\ sid \in connected
    /\ LET room == data.room IN
       IF room # None
       THEN /\ members' = enter_room(members, sid, room)
            /\ lastEmit' = emit(enter_room(members, sid, room), "user_joined_room",
                                [sid |-> sid, room |-> room], room, sid, sid)
       ELSE UNCHANGED <<members, lastEmit>>
    /\ UNCHANGED <<connected, terminated>>
    /\ UNCHANGED nonHubVars

hub_leave_room(sid, data) ==
    /\ sid \in connected
    /\ LET room == data.room IN
       IF room # None
       THEN /\ members' = sio_leave_room(members, sid, room)
            /\ lastEmit' = emit(sio_leave_room(members, sid, room), "user_left_room",
                                [sid |-> sid, room |-> room], room, sid, sid)
       ELSE UNCHANGED <<members, lastEmit>>
    /\ UNCHANGED <<connected, terminated>>
    /\ UNCHANGED nonHubVars

process_drawing_data(data) == data

\* draw_data with the sender not skipped
draw_data_echo(sid, data) ==
    /\ sid \in connected
    /\ LET room == data.room IN
       IF room # None
       THEN lastEmit' = emit(members, "drawing_update", process_drawing_data(data),
                             room, None, sid)
       ELSE UNCHANGED lastEmit
    /\ UNCHANGED <<connected, members, terminated>>
    /\ UNCHANGED nonHubVars

draw_data(sid, data) ==
    /\ sid \in connected
    /\ LET room == data.room IN
       IF room # None
       THEN lastEmit' = emit(members, "drawing_update", process_drawing_data(data),
                             room, sid, sid)
       ELSE UNCHANGED lastEmit
    /\ UNCHANGED <<connected, members, terminated>>
    /\ UNCHANGED nonHubVars

clear_canvas(sid, data) ==
    /\ sid \in connected
    /\ LET room == data.room IN
       IF room # None
       THEN lastEmit' = emit(members, "canvas_cleared", [room |-> room], room, sid, sid)
       ELSE UNCHANGED lastEmit
    /\ UNCHANGED <<connected, members, terminated>>
    /\ UNCHANGED nonHubVars

---------------------------------------------------------------------------
(* AIService, app/services/ai_service.py *)

\* A simplified contour is known by what the classifier reads of it:
\* len(contour), cv2.boundingRect (w, h), cv2.contourArea, cv2.arcLength.
\* Confidences and circularity are in thousandths.
Measures == { <<0, 0>>, <<64, 32>>, <<65, 32>>, <<66, 32>>, <<78, 32>> }

Contours ==
    { [vertices |-> v, w |-> w, h |-> h, area |-> m[1], perimeter |-> m[2]] :
        v \in 1..MaxVertices, w \in 1..MaxSide, h \in 1..MaxSide, m \in Measures }

\* 4 * np.pi * area / (perimeter * perimeter) if perimeter > 0 else 0, with
\* pi taken as 355/113, rounded down to thousandths
Circularity(area, perimeter) ==
    IF perimeter > 0 THEN (4 * 355 * area * 1000) \div (113 * perimeter * perimeter) ELSE 0

ShapeInfo(type, confidence, vertices, area) ==
    [type |-> type, confidence |-> confidence, vertices |-> vertices, area |-> area]

\* the aspect test with strict bounds
AspectRatioSquare_strict(w, h) == 8 * h < 10 * w /\ 10 * w < 12 * h

\* 0.8 <= float(w) / h <= 1.2, on the exact quotient
AspectRatioSquare(w, h) == 8 * h <= 10 * w /\ 10 * w <= 12 * h

classify_shape(contour) ==
    LET vertices == contour.vertices IN
    IF vertices = 3
    THEN ShapeInfo("triangle", 900, vertices, contour.area)
    ELSE IF vertices = 4
    THEN IF AspectRatioSquare(contour.w, contour.h)
         THEN ShapeInfo("square", 850, vertices, contour.area)
         ELSE ShapeInfo("rectangle", 800, vertices, contour.area)
    ELSE IF vertices > 8 /\ Circularity(contour.area, contour.perimeter) > 800
    THEN ShapeInfo("circle", Circularity(contour.area, contour.perimeter), vertices,
                   contour.area)
    ELSE ShapeInfo("unknown", 500, vertices, contour.area)

\* for contour in contours: if shape_info['confidence'] >= confidence_threshold: append
RECURSIVE DetectLoop(_, _, _, _)
DetectLoop(contours, i, confidence_threshold, shapes) ==
    IF i > Len(contours) THEN shapes
    ELSE LET shape_info == classify_shape(contours[i])
         IN DetectLoop(contours, i + 1, confidence_threshold,
                       IF shape_info.confidence >= confidence_threshold
                       THEN Append(shapes, shape_info) ELSE shapes)

RECURSIVE SumConfidence(_, _)
SumConfidence(shapes, i) ==
    IF i > Len(shapes) THEN 0 ELSE shapes[i].confidence + SumConfidence(shapes, i + 1)

\* the default of the confidence_threshold parameter, 0.7
DefaultConfidenceThreshold == 700

\* an image is the contours found in it, or cannot be decoded; the result is
\* the ShapeDetectionResult (processing_time, a wall-clock difference, is
\* left out) or the exception raised
detect_shapes(image_data, confidence_threshold) ==
    IF ~ image_data.decodes THEN Raise("Shape detection failed")
    ELSE LET shapes == DetectLoop(image_data.contours, 1, confidence_threshold, << >>)
         IN Ok([shapes |-> shapes,
                confidence |-> IF shapes # << >>
                               THEN SumConfidence(shapes, 1) \div Len(shapes) ELSE 0])

(* The contours and requests the callers send *)
ImageContours ==
    { [vertices |-> 3, w |-> 4, h |-> 4, area |-> 0, perimeter |-> 0],
      [vertices |-> 4, w |-> 5, h |-> 5, area |-> 0, perimeter |-> 0],
      [vertices |-> 6, w |-> 5, h |-> 4, area |-> 0, perimeter |-> 0],
      [vertices |-> 10, w |-> 6, h |-> 6, area |-> 78, perimeter |-> 32] }

Images ==
    { [decodes |-> TRUE, contours |-> cs] :
        cs \in UNION { [1..n -> ImageContours] : n \in 0..MaxContours } }
    \cup { [decodes |-> FALSE, contours |-> << >>] }

ConfidenceThresholds == {500, 700, 850, 900}

ShapeDetectionRequest ==
    [image_data : Images, confidence_threshold : ConfidenceThresholds, max_shapes : {10}]

\* AIService._classify_shape applied to one contour
ClassifyShape(contour) ==
    /\ ai' = [op |-> "_classify_shape", contour |-> contour,
              result |-> classify_shape(contour)]
    /\ UNCHANGED nonAiVars

\* POST /ai/detect-shapes: the response status and body
route_detect_shapes(request) ==
    /\ LET result == detect_shapes(request.image_data, DefaultConfidenceThreshold)
       IN ai' = [op |-> "detect_shapes", request |-> request,
                 status |-> IF result.ok THEN 200 ELSE 500, result |-> result]
    /\ UNCHANGED nonAiVars

---------------------------------------------------------------------------
(* POST /upload, app/api/routes.py and CanvasService.upload_image *)

\* strings the code looks into are sequences of characters
Str_image_slash == <<"i", "m", "a", "g", "e", "/">>

\* str.startswith
startswith(str, prefix) ==
    Len(str) >= Len(prefix) /\ SubSeq(str, 1, Len(prefix)) = prefix

\* os.path.splitext(name)[1]: from the last dot, unless only dots precede it
splitext1(name) ==
    LET dots == { i \in 1..Len(name) : name[i] = "." } IN
    IF dots = {} THEN << >>
    ELSE LET last == CHOOSE i \in dots : \A j \in dots : j <= i
         IN IF \E k \in 1..(last - 1) : name[k] # "." THEN SubSeq(name, last, Len(name))
            ELSE << >>

\* the content types and file names a client sends; << >> is a missing or
\* empty one (not x, x or "")
ContentTypes ==
    { << >>,
      <<"t", "e", "x", "t", "/", "x">>,
      <<"i", "m", "a", "g", "e">>,
      <<"x", "i", "m", "a", "g", "e", "/">>,
      <<"i", "m", "a", "g", "e", "/">>,
      <<"i", "m", "a", "g", "e", "/", "p", "n", "g">> }

Filenames == { << >>, <<"a", ".", "p", "n", "g">>, <<"n", "o", "t", "e", "s">>, <<".", "r", "c">> }

UploadFile == [content_type : ContentTypes, filename : Filenames, content : {"bytes"}]

\* what the file system does to one upload: everything succeeds, makedirs or
\* open fails (no file), or the write fails after open created the file
IoOutcomes == {"ok", "open fails", "write fails"}

FileNames == {"f1", "f2", "f3"}

\* raise HTTPException(status_code, detail)
HTTPException(status_code, detail) == [status |-> status_code, detail |-> detail]

\* CanvasService.upload_image: the files afterwards and the value returned or
\* the exception raised; name is the uuid4 drawn for the file
upload_image(file, name, io) ==
    LET file_extension == splitext1(file.filename) IN
    IF io = "open fails"
    THEN [files |-> uploads, result |-> Raise("Failed to upload image")]
    ELSE IF io = "write fails"
    THEN [files |-> DictSet(uploads, name, [ext |-> file_extension, content |-> ""]),
          result |-> Raise("Failed to upload image")]
    ELSE [files |-> DictSet(uploads, name, [ext |-> file_extension, content |-> file.content]),
          result |-> Ok([name |-> name, ext |-> file_extension])]

\* the route: the content-type check raises HTTPException(400) inside the
\* try block, and except Exception turns whatever was raised into a 500
route_upload_image(file, name, io) ==
    /\ Cardinality(DOMAIN uploads) < MaxUploads
    /\ name \notin DOMAIN uploads
    /\ IF file.content_type = << >> \/ ~ startswith(file.content_type, Str_image_slash)
       THEN LET e == HTTPException(400, "File must be an image")
            IN /\ http' = [request |-> file, io |-> io,
                           response |-> HTTPException(500, "Upload failed"), caught |-> e.status]
               /\ uploads' = uploads
       ELSE LET r == upload_image(file, name, io)
            IN /\ uploads' = r.files
               /\ http' = [request |-> file, io |-> io,
                           response |-> IF r.result.ok THEN [status |-> 200, detail |-> "image_url"]
                                        ELSE HTTPException(500, "Upload failed"),
                           caught |-> 0]
    /\ UNCHANGED nonUploadVars

---------------------------------------------------------------------------
(* join_room and leave_room under concurrent callers, canvas_service.py 141-151 *)

\* The callers are coroutines of the one event loop (every route and handler
\* is async def and nothing starts a thread): a caller runs until it awaits.
Callers == {"c1", "c2", "c3"}
CallOps == {"join_room", "leave_room"}

NoCall == [pc |-> "idle", op |-> None, room_id |-> None, tmp |-> 0, seen |-> 0]

\* the count the method stores, from the count n it read
CountAfter(op, n) == IF op = "join_room" THEN n + 1 ELSE Max(0, n - 1)

\* the methods with an await between reading and storing the count
CallSuspends_await == TRUE

\* whether a caller gives the loop back between reading active_users and
\* storing it: both methods are plain def with no await
CallSuspends == FALSE

\* a caller issues join_room or leave_room on an existing room; seen is the
\* number of calls on that room that had returned by then
Invoke(c, op, room_id) ==
    /\ calls[c].pc = "idle"
    /\ room_id \in DOMAIN rooms
    /\ calls' = [calls EXCEPT ![c] = [pc |-> "called", op |-> op, room_id |-> room_id,
                                      tmp |-> 0, seen |-> done[room_id].joins + done[room_id].leaves]]
    /\ UNCHANGED done
    /\ UNCHANGED <<serviceVars, hubVars, aiVars, uploadVars, fifoVars>>

\* the loop runs the caller up to its next suspension or to the return
RunCall(c) ==
    /\ calls[c].pc \in {"called", "read"}
    /\ LET k == calls[c]
           r == k.room_id
       IN IF k.pc = "called" /\ CallSuspends
          THEN /\ calls' = [calls EXCEPT ![c].pc = "read", ![c].tmp = rooms[r].active_users]
               /\ UNCHANGED <<rooms, done>>
          ELSE /\ rooms' = [rooms EXCEPT ![r].active_users =
                               CountAfter(k.op, IF k.pc = "read" THEN k.tmp ELSE @)]
               /\ calls' = [calls EXCEPT ![c].pc = "done"]
               /\ done' = IF k.op = "join_room"
                          THEN [done EXCEPT ![r].joins = @ + 1]
                          ELSE [done EXCEPT ![r].leaves = @ + 1]
    /\ UNCHANGED <<canvas_data, analytics, used, lastOp, last_saved, ever_saved>>
    /\ UNCHANGED <<hubVars, aiVars, uploadVars, fifoVars>>

---------------------------------------------------------------------------
(* The handlers as tasks, main.py 48-92 on the asyncio event loop *)

\* The server starts one task per received event; the loop runs ready tasks
\* in the order they became ready.  A handler runs until it first suspends.
FifoSids == {"s1", "s2"}
FifoEvents == {"join_room", "draw_data", "clear_canvas"}
FifoData == { d \in ClientData : d.room = "id1" /\ d.payload = "p1" }

Task(kind, event, sid, data, seq, stage, to) ==
    [kind |-> kind, event |-> event, sid |-> sid, data |-> data, seq |-> seq,
     stage |-> stage, to |-> to]

\* process_drawing_data suspended on I/O
ProcessSuspends_io == TRUE

\* whether await process_drawing_data(data) gives the loop back before it
\* returns: its body has no await
ProcessSuspends == FALSE

\* one send task per recipient of an emit, each carrying the sender and the
\* receipt number of the event that caused it
RECURSIVE SendTasks(_, _, _)
SendTasks(e, to, seq) ==
    IF to = {} THEN << >>
    ELSE LET r == CHOOSE x \in to : TRUE
         IN <<Task("send", e.event, e.sid, e.data, seq, "start", r)>>
            \o SendTasks(e, to \ {r}, seq)

\* the server receives an event of a client and starts its handler task
Receive(sid, event, data) ==
    /\ sid \in connected
    /\ received < MaxEvents
    /\ received' = received + 1
    /\ ready' = Append(ready, Task("handler", event, sid, data, received + 1, "start", None))
    /\ UNCHANGED <<outbox, delivered>>
    /\ UNCHANGED <<serviceVars, hubVars, aiVars, uploadVars, concVars>>

\* the loop runs the handler task at the head of the queue: draw_data first
\* awaits process_drawing_data; then the handler acts and its emit starts
\* the send tasks
RunHandler ==
    /\ ready # << >>
    /\ Head(ready).kind = "handler"
    /\ LET t == Head(ready) IN
       IF t.event = "draw_data" /\ t.stage = "start" /\ ProcessSuspends
       THEN /\ ready' = Append(Tail(ready), [t EXCEPT !.stage = "resumed"])
            /\ UNCHANGED <<hubVars, nonHubVars>>
       ELSE /\ IF t.event = "join_room" THEN hub_join_room(t.sid, t.data)
               ELSE IF t.event = "draw_data" THEN draw_data(t.sid, t.data)
               ELSE clear_canvas(t.sid, t.data)
            /\ ready' = Tail(ready) \o (IF t.data.room # None
                                        THEN SendTasks(lastEmit', lastEmit'.to, t.seq)
                                        ELSE << >>)
    /\ UNCHANGED <<outbox, delivered, received>>

\* the loop runs the send task at the head of the queue: the packet goes on
\* the recipient's socket queue
RunSend ==
    /\ ready # << >>
    /\ Head(ready).kind = "send"
    /\ outbox' = [outbox EXCEPT ![Head(ready).to] = Append(@, Head(ready))]
    /\ ready' = Tail(ready)
    /\ UNCHANGED <<delivered, received>>
    /\ UNCHANGED <<serviceVars, hubVars, aiVars, uploadVars, concVars>>

\* the socket's writer sends the oldest queued packet to the client
Deliver(sid) ==
    /\ outbox[sid] # << >>
    /\ delivered' = [delivered EXCEPT ![sid] = Append(@, Head(outbox[sid]))]
    /\ outbox' = [outbox EXCEPT ![sid] = Tail(@)]
    /\ UNCHANGED <<ready, received>>
    /\ UNCHANGED <<serviceVars, hubVars, aiVars, uploadVars, concVars>>

---------------------------------------------------------------------------
Init ==
    /\ rooms = EmptyDict
    /\ canvas_data = EmptyDict
    /\ analytics = EmptyDict
    /\ used = {}
    /\ lastOp = [op |-> "init", room_id |-> None, room_name |-> None, raised |-> None,
                 users_before |-> -1, repeat |-> FALSE]
    /\ last_saved = [r \in RoomIds |-> << >>]
    /\ ever_saved = {}
    /\ connected = {}
    /\ members = [r \in HubRooms |-> {}]
    /\ lastEmit = NoEmit
    /\ terminated = {}
    /\ ai = [op |-> None]
    /\ uploads = EmptyDict
    /\ ready = << >>
    /\ outbox = [sid \in Sids |-> << >>]
    /\ delivered = [sid \in Sids |-> << >>]
    /\ received = 0
    /\ calls = [c \in Callers |-> NoCall]
    /\ done = [r \in RoomIds |-> [joins |-> 0, leaves |-> 0]]
    /\ http = [request |-> [content_type |-> << >>, filename |-> << >>, content |-> ""],
               io |-> None, response |-> [status |-> 0, detail |-> None], caught |-> 0]

Next ==
    \/ \E room_name \in RoomNames : create_room(room_name) /\ UNCHANGED concVars
    \/ \E room_id \in RoomIds, drawing_data \in Docs : save_canvas(room_id, drawing_data) /\ UNCHANGED concVars
    \/ \E room_id \in RoomIds, user_id \in UserIds : join_room(room_id, user_id) /\ UNCHANGED concVars
    \/ \E room_id \in RoomIds, user_id \in UserIds : leave_room(room_id, user_id) /\ UNCHANGED concVars
    \/ \E room_id \in RoomIds : delete_room(room_id) /\ UNCHANGED concVars

Spec == Init /\ [][Next]_vars

HubNext ==
    \/ \E sid \in Sids : connect(sid) /\ UNCHANGED fifoVars
    \/ \E sid \in Sids : disconnect(sid) /\ UNCHANGED fifoVars
    \/ \E sid \in Sids, data \in ClientData : hub_join_room(sid, data) /\ UNCHANGED fifoVars
    \/ \E sid \in Sids, data \in ClientData : hub_leave_room(sid, data) /\ UNCHANGED fifoVars
    \/ \E sid \in Sids, data \in ClientData : draw_data(sid, data) /\ UNCHANGED fifoVars
    \/ \E sid \in Sids, data \in ClientData : clear_canvas(sid, data) /\ UNCHANGED fifoVars

HubSpec == Init /\ [][HubNext]_vars

AppNext ==
    \/ \E room_name \in RoomNames : create_room(room_name) /\ UNCHANGED concVars
    \/ \E room_id \in RoomIds : delete_room(room_id) /\ UNCHANGED concVars
    \/ \E sid \in Sids : connect(sid) /\ UNCHANGED fifoVars
    \/ \E sid \in Sids : disconnect(sid) /\ UNCHANGED fifoVars
    \/ \E sid \in Sids, data \in ClientData : hub_join_room(sid, data) /\ UNCHANGED fifoVars
    \/ \E sid \in Sids, data \in ClientData : hub_leave_room(sid, data) /\ UNCHANGED fifoVars

AppSpec == Init /\ [][AppNext]_vars

AINext ==
    \/ \E contour \in Contours : ClassifyShape(contour)
    \/ \E request \in ShapeDetectionRequest : route_detect_shapes(request)

AISpec == Init /\ [][AINext]_vars

UploadNext ==
    \E file \in UploadFile, name \in FileNames, io \in IoOutcomes :
        route_upload_image(file, name, io)

UploadSpec == Init /\ [][UploadNext]_vars

ConcNext ==
    \/ \E room_name \in RoomNames : create_room(room_name) /\ UNCHANGED concVars
    \/ \E c \in Callers, op \in CallOps, room_id \in RoomIds : Invoke(c, op, room_id)
    \/ \E c \in Callers : RunCall(c)

ConcSpec == Init /\ [][ConcNext]_vars

FifoNext ==
    \/ \E sid \in FifoSids : connect(sid) /\ UNCHANGED fifoVars
    \/ \E sid \in FifoSids, event \in FifoEvents, data \in FifoData : Receive(sid, event, data)
    \/ RunHandler
    \/ RunSend
    \/ \E sid \in FifoSids : Deliver(sid)

FifoSpec == Init /\ [][FifoNext]_vars

---------------------------------------------------------------------------
(* Properties *)

RoomScopedEvents == {"user_joined_room", "user_left_room", "drawing_update", "canvas_cleared"}

\* C1: a room-scoped server event caused by sid for room R is delivered only
\* to sids that were in R's group when the handler started and that are in it
\* once the handler has run, and never to sid itself.
C1_RoomScopedFanout ==
    lastEmit.event \in RoomScopedEvents =>
        /\ lastEmit.to \subseteq lastEmit.group
        /\ lastEmit.to \subseteq members[lastEmit.room]
        /\ lastEmit.sid \notin lastEmit.to

\* a member's drawing reached another member while a connected sid outside
\* the room received nothing
C1_Witness ==
    /\ lastEmit.event = "drawing_update"
    /\ lastEmit.sid \in lastEmit.group
    /\ lastEmit.to # {}
    /\ connected \ lastEmit.group # {}

\* C2: every room's active_users is >= 0, and a leave_room on a room whose
\* count was 0 leaves it at 0.
C2_MemberCountFloor ==
    /\ \A r \in DOMAIN rooms : rooms[r].active_users >= 0
    /\ (lastOp.op = "leave_room" /\ lastOp.users_before = 0) =>
           rooms[lastOp.room_id].active_users = 0

\* leave_room has just run on an existing room that counted no user
C2_Witness ==
    /\ lastOp.op = "leave_room"
    /\ lastOp.users_before = 0
    /\ lastOp.room_id \in DOMAIN rooms

\* C3: for a room_id that is not in rooms, get_room_info and join_room raise
\* "Room not found", leave_room and delete_room return normally, and the
\* rooms, canvas_data and analytics maps are what they were.
C3_AbsentRoom ==
    [][ \A r \in RoomIds : r \notin DOMAIN rooms =>
          /\ get_room_info(r) = Raise("Room not found")
          /\ (lastOp'.room_id = r /\ lastOp'.op = "join_room") =>
                 /\ lastOp'.raised = "Room not found"
                 /\ UNCHANGED <<rooms, canvas_data, analytics>>
          /\ (lastOp'.room_id = r /\ lastOp'.op \in {"leave_room", "delete_room"}) =>
                 /\ lastOp'.raised = None
                 /\ UNCHANGED <<rooms, canvas_data, analytics>>
      ]_vars

\* join_room has just failed on an unknown identifier while another room
\* with a saved canvas and analytics exists
C3_Witness ==
    /\ lastOp.op = "join_room"
    /\ lastOp.users_before = -1
    /\ lastOp.raised = "Room not found"
    /\ DOMAIN analytics # {}

(* What a document's strokes determine, stated by counting *)
ColorsIn(strokes) == { strokes[i].color : i \in DOMAIN strokes }
ShapesIn(strokes) == { strokes[i].shape_type : i \in DOMAIN strokes } \cap ShapeType
StrokesColored(strokes, c) == Cardinality({ i \in DOMAIN strokes : strokes[i].color = c })
StrokesShaped(strokes, k) == Cardinality({ i \in DOMAIN strokes : strokes[i].shape_type = k })

DerivedOf(strokes) ==
    [total_strokes |-> Len(strokes),
     color_usage |-> [c \in ColorsIn(strokes) |-> StrokesColored(strokes, c)],
     shape_count |-> [k \in ShapesIn(strokes) |-> StrokesShaped(strokes, k)],
     drawing_time |-> Len(strokes) * SecondsPerStrokeTenths]

Derived(a) ==
    [total_strokes |-> a.total_strokes, color_usage |-> a.color_usage,
     shape_count |-> a.shape_count, drawing_time |-> a.drawing_time]

RECURSIVE SumOver(_, _)
SumOver(d, keys) ==
    IF keys = {} THEN 0
    ELSE LET k == CHOOSE x \in keys : TRUE IN d[k] + SumOver(d, keys \ {k})

ZeroAnalytics ==
    [total_strokes |-> 0, active_users |-> 0, drawing_time |-> 0,
     heatmap_data |-> [width |-> 1920, height |-> 1080, data |-> << >>],
     shape_count |-> << >>, color_usage |-> << >>]

\* C4: save_canvas on an unknown room_id raises "Room not found" and changes
\* no stored document and no stored analytics; a save that returns has put
\* the given document and the analytics of that document in the room's
\* entries and touched no other room's.
C4_SaveAllOrNothing ==
    [][ \A r \in RoomIds : (lastOp'.op = "save_canvas" /\ lastOp'.room_id = r) =>
          /\ r \notin DOMAIN rooms => lastOp'.raised = "Room not found"
          /\ lastOp'.raised # None => UNCHANGED <<rooms, canvas_data, analytics>>
          /\ lastOp'.raised = None =>
                 /\ r \in DOMAIN rooms
                 /\ last_saved'[r] # << >>
                 /\ canvas_data'[r] = last_saved'[r][1]
                 /\ r \in DOMAIN analytics'
                 /\ Derived(analytics'[r]) = DerivedOf(last_saved'[r][1].strokes)
                 /\ DOMAIN canvas_data' = DOMAIN canvas_data
                 /\ DOMAIN analytics' = DOMAIN analytics \cup {r}
                 /\ \A q \in DOMAIN canvas_data \ {r} : canvas_data'[q] = canvas_data[q]
                 /\ \A q \in DOMAIN analytics \ {r} : analytics'[q] = analytics[q]
      ]_vars

\* save_canvas has just failed on an unknown identifier while another room
\* holds a saved document and analytics
C4_Witness ==
    /\ lastOp.op = "save_canvas"
    /\ lastOp.raised = "Room not found"
    /\ \E q \in DOMAIN analytics : Len(canvas_data[q].strokes) > 0

\* C5: for every room with a successful save, get_canvas returns exactly the
\* document of the latest save and the stored analytics are the ones of that
\* same document.
C5_LastWriterWins ==
    \A r \in DOMAIN rooms : last_saved[r] # << >> =>
        /\ get_canvas(r) = Ok(last_saved[r][1])
        /\ r \in DOMAIN analytics
        /\ Derived(analytics[r]) = DerivedOf(last_saved[r][1].strokes)

\* two rooms hold different saved documents, the last call being a save
C5_Witness ==
    /\ lastOp.op = "save_canvas"
    /\ lastOp.raised = None
    /\ \E r, q \in DOMAIN rooms :
          /\ last_saved[r] # << >> /\ last_saved[q] # << >>
          /\ Len(last_saved[r][1].strokes) > Len(last_saved[q][1].strokes)

\* C6: after delete_room(R), get_room_info(R) and get_canvas(R) raise,
\* get_room_analytics(R) is the zero record, every other room's records are
\* what they were, and deleting an absent identifier changes nothing.
C6_DeleteCascades ==
    [][ \A r \in RoomIds : (lastOp'.op = "delete_room" /\ lastOp'.room_id = r) =>
          /\ lastOp'.raised = None
          /\ get_room_info(r)' = Raise("Room not found")
          /\ get_canvas(r)' = Raise("Canvas not found")
          /\ get_room_analytics(r)' = Ok(ZeroAnalytics)
          /\ DOMAIN rooms' = DOMAIN rooms \ {r}
          /\ DOMAIN canvas_data' = DOMAIN canvas_data \ {r}
          /\ DOMAIN analytics' = DOMAIN analytics \ {r}
          /\ \A q \in DOMAIN rooms' : rooms'[q] = rooms[q]
          /\ \A q \in DOMAIN canvas_data' : canvas_data'[q] = canvas_data[q]
          /\ \A q \in DOMAIN analytics' : analytics'[q] = analytics[q]
          /\ r \notin DOMAIN rooms => UNCHANGED <<rooms, canvas_data, analytics>>
      ]_vars

\* a room with a saved canvas has just been deleted while another room with
\* analytics remains
C6_Witness ==
    /\ lastOp.op = "delete_room"
    /\ lastOp.users_before >= 0
    /\ lastOp.room_id \in ever_saved
    /\ DOMAIN analytics # {}

\* C7: create_room(name) returns an identifier no existing room has;
\* get_room_info of it then returns the given name, active_users 0 and
\* 1920 x 1080; every earlier room, document and analytics record is kept.
C7_CreateRoom ==
    [][ \A r \in RoomIds : (lastOp'.op = "create_room" /\ lastOp'.room_id = r) =>
          /\ r \notin DOMAIN rooms
          /\ get_room_info(r)'.ok
          /\ get_room_info(r)'.value.name = lastOp'.room_name
          /\ get_room_info(r)'.value.active_users = 0
          /\ get_room_info(r)'.value.canvas_width = 1920
          /\ get_room_info(r)'.value.canvas_height = 1080
          /\ DOMAIN rooms' = DOMAIN rooms \cup {r}
          /\ \A q \in DOMAIN rooms : rooms'[q] = rooms[q]
          /\ \A q \in DOMAIN canvas_data : q \in DOMAIN canvas_data' /\ canvas_data'[q] = canvas_data[q]
          /\ analytics' = analytics
      ]_vars

\* a second room has just been created beside one that has users and analytics
C7_Witness ==
    /\ lastOp.op = "create_room"
    /\ \E q \in DOMAIN rooms \ {lastOp.room_id} :
          rooms[q].active_users > 0 /\ q \in DOMAIN analytics

\* C8: right after a successful save_canvas(R, doc), get_room_analytics(R)
\* has total_strokes = the number of strokes, color_usage = strokes per
\* color (summing to total_strokes), shape_count = strokes per shape kind
\* with no key for strokes without one, drawing_time = total_strokes x 0.1;
\* red, red, blue-circle gives 3, {red: 2, blue: 1}, {circle: 1}.
C8_AnalyticsOfSave ==
    (lastOp.op = "save_canvas" /\ lastOp.raised = None) =>
        LET doc == last_saved[lastOp.room_id][1]
            a == get_room_analytics(lastOp.room_id).value
        IN /\ a.total_strokes = Len(doc.strokes)
           /\ DOMAIN a.color_usage = ColorsIn(doc.strokes)
           /\ \A c \in DOMAIN a.color_usage : a.color_usage[c] = StrokesColored(doc.strokes, c)
           /\ SumOver(a.color_usage, DOMAIN a.color_usage) = a.total_strokes
           /\ DOMAIN a.shape_count = ShapesIn(doc.strokes)
           /\ None \notin DOMAIN a.shape_count
           /\ \A k \in DOMAIN a.shape_count : a.shape_count[k] = StrokesShaped(doc.strokes, k)
           /\ a.drawing_time = a.total_strokes * SecondsPerStrokeTenths
           /\ doc.strokes = ExampleStrokes =>
                  /\ a.total_strokes = 3
                  /\ a.color_usage = [c \in {"red", "blue"} |-> IF c = "red" THEN 2 ELSE 1]
                  /\ a.shape_count = [k \in {"circle"} |-> 1]

\* the three-stroke document red, red, blue-circle has just been saved
C8_Witness ==
    /\ lastOp.op = "save_canvas"
    /\ lastOp.raised = None
    /\ last_saved[lastOp.room_id] # << >>
    /\ last_saved[lastOp.room_id][1].strokes = ExampleStrokes

\* C9: a successful save_canvas(R, doc) that immediately follows a successful
\* save_canvas(R, doc) leaves the stored document and every field of the
\* analytics record as the first call left them.
C9_SaveIdempotent ==
    [][ \A r \in RoomIds :
          (lastOp'.op = "save_canvas" /\ lastOp'.repeat /\ lastOp'.room_id = r) =>
          /\ canvas_data'[r] = canvas_data[r]
          /\ get_room_analytics(r)' = get_room_analytics(r)
          /\ r \in DOMAIN analytics /\ r \in DOMAIN analytics'
      ]_vars

\* the same non-empty document has just been saved twice in a row in a room
\* that has a user
C9_Witness ==
    /\ lastOp.op = "save_canvas"
    /\ lastOp.repeat
    /\ lastOp.users_before > 0
    /\ Len(canvas_data[lastOp.room_id].strokes) > 1

\* C10 as stated: get_canvas raises for every identifier for which no save
\* has ever succeeded.
C10_NeverSavedNotFound ==
    \A r \in RoomIds : r \notin ever_saved => ~ get_canvas(r).ok

\* C10 amended: get_canvas raises "Canvas not found" exactly for the
\* identifiers not in the registry; for a room created and never saved it
\* returns the empty document of default size that create_room stored.
C10_CanvasFromCreate ==
    \A r \in RoomIds :
        /\ r \notin DOMAIN rooms <=> get_canvas(r) = Raise("Canvas not found")
        /\ (r \in DOMAIN rooms /\ r \notin ever_saved) =>
               get_canvas(r) = Ok([strokes |-> << >>, canvas_width |-> 1920,
                                   canvas_height |-> 1080, background_color |-> "#ffffff",
                                   timestamp |-> None])

\* a room has just been created and nothing was ever saved in it
C10_Witness ==
    /\ lastOp.op = "create_room"
    /\ lastOp.room_id \in DOMAIN rooms
    /\ lastOp.room_id \notin ever_saved

\* C11: a hub join_room naming a room identifier that is not in the registry
\* delivers user_joined_room to no connection.
C11_UnknownRoomJoinSilent ==
    [][ \A sid \in Sids, data \in ClientData :
          (hub_join_room(sid, data) /\ data.room # None /\ data.room \notin DOMAIN rooms)
              => lastEmit'.to = {} ]_vars

\* C12: every connection is in at most one room's fanout group.
C12_AtMostOneRoom ==
    \A sid \in Sids : Cardinality({ r \in HubRooms : sid \in members[r] }) <= 1

\* C13: a sid that has disconnected is not connected, is in no room's fanout
\* group, and is among the recipients of no emit made since.
C13_Terminated ==
    \A t \in terminated :
        /\ t.sid \notin connected
        /\ \A r \in HubRooms : t.sid \notin members[r]
        /\ t.sid \notin lastEmit.to

\* a drawing_update has reached members of a room that a disconnected sid
\* was in when it disconnected
C13_Witness ==
    /\ lastEmit.event = "drawing_update"
    /\ lastEmit.to # {}
    /\ \E t \in terminated : lastEmit.room \in t.rooms

\* C14: user_connected and user_disconnected carry the sid and go to every
\* other connected sid, whatever rooms those are in, and not to the sid.
C14_GlobalPresence ==
    /\ lastEmit.event = "user_connected" =>
           /\ lastEmit.data = [sid |-> lastEmit.sid]
           /\ lastEmit.to = connected \ {lastEmit.sid}
    /\ lastEmit.event = "user_disconnected" =>
           /\ lastEmit.data = [sid |-> lastEmit.sid]
           /\ lastEmit.sid \notin lastEmit.to
           /\ lastEmit.to = connected

\* a presence event has reached both a sid that is in a room and a sid that
\* is in none
C14_Witness ==
    /\ lastEmit.event \in {"user_connected", "user_disconnected"}
    /\ \E a, b \in lastEmit.to :
          /\ \E r \in HubRooms : a \in members[r]
          /\ \A r \in HubRooms : b \notin members[r]

\* C19: for every room of the registry, active_users is the number of sids
\* in the room's fanout group.
C19_RegistryMatchesFanout ==
    \A r \in DOMAIN rooms : rooms[r].active_users = Cardinality(members[r])

\* C15: the classification depends only on the vertex count and the bounding
\* box: 3 -> triangle 0.9; 4 -> square 0.85 if 0.8 <= w/h <= 1.2, else
\* rectangle 0.8; 1, 2, 5..8 -> unknown 0.5; more than 8 -> circle only if
\* circularity > 0.8, else unknown 0.5; the record carries the vertex count.
C15_Classification ==
    ai.op = "_classify_shape" =>
        LET c == ai.contour
            s == ai.result
        IN /\ s.vertices = c.vertices
           /\ c.vertices = 3 => (s.type = "triangle" /\ s.confidence = 900)
           /\ (c.vertices = 4 /\ 4 * c.h <= 5 * c.w /\ 5 * c.w <= 6 * c.h) =>
                  (s.type = "square" /\ s.confidence = 850)
           /\ (c.vertices = 4 /\ (4 * c.h > 5 * c.w \/ 5 * c.w > 6 * c.h)) =>
                  (s.type = "rectangle" /\ s.confidence = 800)
           /\ c.vertices \in {1, 2, 5, 6, 7, 8} => (s.type = "unknown" /\ s.confidence = 500)
           /\ c.vertices > 8 =>
                  \/ s.type = "circle" /\ Circularity(c.area, c.perimeter) > 800
                  \/ s.type = "unknown" /\ s.confidence = 500
                        /\ Circularity(c.area, c.perimeter) <= 800

\* a four-vertex contour whose box is 6 wide and 5 high (ratio exactly 1.2)
\* has just been classified
C15_Witness ==
    /\ ai.op = "_classify_shape"
    /\ ai.contour.vertices = 4
    /\ ai.contour.w = 6
    /\ ai.contour.h = 5

\* the shapes of an image with confidence at least t, in contour order
RECURSIVE ShapesAtLeast(_, _)
ShapesAtLeast(contours, t) ==
    IF contours = << >> THEN << >>
    ELSE LET s == classify_shape(Head(contours))
         IN (IF s.confidence >= t THEN <<s>> ELSE << >>) \o ShapesAtLeast(Tail(contours), t)

\* C16: a detect-shapes response holds exactly the classified shapes whose
\* confidence is >= the request's confidence_threshold, and its aggregate
\* confidence is 0 when it holds none.
C16_ThresholdHonoured ==
    (ai.op = "detect_shapes" /\ ai.status = 200) =>
        /\ ai.result.value.shapes =
               ShapesAtLeast(ai.request.image_data.contours, ai.request.confidence_threshold)
        /\ ai.result.value.shapes = << >> => ai.result.value.confidence = 0

\* C17: an upload whose content type is missing or does not start with
\* 'image/' is answered with a 400-class status and stores no file.
C17_NonImageRejected400 ==
    [][ \A file \in UploadFile, name \in FileNames, io \in IoOutcomes :
          (/\ ~ startswith(file.content_type, Str_image_slash)
           /\ route_upload_image(file, name, io))
          => (http'.response.status \in 400..499 /\ uploads' = uploads) ]_vars

\* C18: every stored canvas document has a width and a height that are
\* positive and at most MAX_CANVAS_SIZE, and no stroke of it has an empty
\* point sequence.
C18_StoredDocsBounded ==
    \A r \in DOMAIN canvas_data :
        /\ canvas_data[r].canvas_width \in 1..MAX_CANVAS_SIZE
        /\ canvas_data[r].canvas_height \in 1..MAX_CANVAS_SIZE
        /\ \A i \in 1..Len(canvas_data[r].strokes) : canvas_data[r].strokes[i].points # << >>

\* C20: of two events of one sender that are both delivered to a receiver,
\* the one the hub received first is delivered first.
C20_PerSenderFifo ==
    \A r \in Sids : \A i, j \in 1..Len(delivered[r]) :
        (i < j /\ delivered[r][i].sid = delivered[r][j].sid) =>
            delivered[r][i].seq < delivered[r][j].seq

\* a receiver has been delivered a drawing update and then a canvas clear of
\* the same sender
C20_Witness ==
    \E r \in Sids : \E i, j \in 1..Len(delivered[r]) :
        /\ i < j
        /\ delivered[r][i].sid = delivered[r][j].sid
        /\ delivered[r][i].event = "drawing_update"
        /\ delivered[r][j].event = "canvas_cleared"

\* C23: the room ids that have a stored canvas document are exactly the
\* room ids of the registry, and every room id that has an analytics record
\* is in the registry.
C23_StoreKeys ==
    /\ DOMAIN canvas_data = DOMAIN rooms
    /\ DOMAIN analytics \subseteq DOMAIN rooms

\* a room that had been saved has just been deleted while another room,
\* saved too, remains
C23_Witness ==
    /\ lastOp.op = "delete_room"
    /\ lastOp.room_id \in ever_saved
    /\ lastOp.room_id \notin DOMAIN rooms
    /\ DOMAIN analytics # {}

\* C22: a draw_data or clear_canvas naming room R from a connection that is
\* not in R's group delivers nothing to anyone, and a delivered
\* drawing_update carries exactly the data the sender sent.
C22_OnlyMembersCauseEvents ==
    [][ \A sid \in Sids, data \in ClientData :
          (/\ data.room # None
           /\ draw_data(sid, data) \/ clear_canvas(sid, data))
          => /\ sid \notin members[data.room] => lastEmit'.to = {}
             /\ (lastEmit'.event = "drawing_update" /\ lastEmit'.to # {})
                    => lastEmit'.data = data ]_vars

\* the counts that j joins and l leaves give from count n when applied one
\* at a time, in every order
RECURSIVE SerialCounts(_, _, _)
SerialCounts(n, j, l) ==
    IF j = 0 /\ l = 0 THEN {n}
    ELSE (IF j > 0 THEN SerialCounts(n + 1, j - 1, l) ELSE {})
         \cup (IF l > 0 THEN SerialCounts(Max(0, n - 1), j, l - 1) ELSE {})

\* C21: whenever no call on a room is between its read and its store, the
\* room's member count is one that the joins and leaves that have returned
\* give in some serial order, starting from the 0 of the fresh room.
C21_NoLostUpdate ==
    \A r \in DOMAIN rooms :
        (\A c \in Callers : ~ (calls[c].pc = "read" /\ calls[c].room_id = r)) =>
            rooms[r].active_users \in SerialCounts(0, done[r].joins, done[r].leaves)

\* two joins on one room were both issued before either returned, both have
\* returned, and a leave that was issued before the first join returned has
\* returned too
C21_Witness ==
    \E a, b, c \in Callers :
        /\ a # b
        /\ calls[a].pc = "done" /\ calls[b].pc = "done" /\ calls[c].pc = "done"
        /\ calls[a].op = "join_room" /\ calls[b].op = "join_room"
        /\ calls[c].op = "leave_room"
        /\ calls[a].room_id = calls[b].room_id /\ calls[c].room_id = calls[a].room_id
        /\ calls[a].seen = 0 /\ calls[b].seen = 0 /\ calls[c].seen = 0

====
